---------------------------- MODULE Spec2Model ----------------------------
(***************************************************************************)
(* A model of the llm_engineering package: the MongoDB connector           *)
(* singleton, the NoSQLBaseDocument object-document mapper, the crawler    *)
(* strategies, the crawler dispatcher and the batch runner.                *)
(*                                                                         *)
(* Python values are tagged records:                                       *)
(*   [t |-> "None"]                      None                              *)
(*   [t |-> "str",  s |-> <<tokens>>]    a str, as its sequence of tokens  *)
(*   [t |-> "UUID", int |-> n]           a uuid.UUID, by its integer       *)
(*   [t |-> "dict", d |-> [key |-> v]]   a dict with str keys              *)
(*   [t |-> "ObjectId", oid |-> n]       a bson ObjectId the store made up *)
(* A model instance is [cls, f, set]: its class, its field values and      *)
(* pydantic's model_fields_set.  A stored record is a function from key    *)
(* to value.                                                               *)
(***************************************************************************)
EXTENDS Integers, Sequences, FiniteSets, TLC

VARIABLES
    _instance,    \* MongoDatabaseConnector._instance: 0 is None, else the client
    driver,       \* the driver's uuidRepresentation setting
    clients,      \* how many MongoClient objects have been constructed so far
    store,        \* the database: collection name -> sequence of records
    written,      \* per collection, the instance each record was serialized from
    oids,         \* how many ObjectIds the store has generated
    tempdirs,     \* the temporary directories that exist on disk
    last,         \* the last call made: what it was given and what it returned
    _crawlers,    \* CrawlerDispatcher._crawlers: pattern -> crawler class
    registered,   \* the register calls made on the dispatcher, in order
    batch,        \* the running test_crawler_dispatcher call
    callers,      \* the callers that share the store, each inside one call
    inp,          \* the arguments of the pure function under evaluation
    out           \* its result

vars == <<_instance, driver, clients, store, written, oids, tempdirs, last, _crawlers, registered,
          batch, callers, inp, out>>

(***************************************************************************)
(* Bounds of the model.                                                    *)
(***************************************************************************)
UuidHexLen == 2
MaxRecords == 2
MaxClients == 3
MaxRegistrations == 2
MaxLinks == 2
MaxBatch == 2

(***************************************************************************)
(* Python values.                                                          *)
(***************************************************************************)
None == [t |-> "None"]
Str(s) == [t |-> "str", s |-> s]
Uuid(n) == [t |-> "UUID", int |-> n]
Dict(d) == [t |-> "dict", d |-> d]
ObjectId(n) == [t |-> "ObjectId", oid |-> n]

EmptyDict == <<>>

\* dict(d, k=v) and d.pop(k) on a mapping with str keys
DictSet(d, k, v) == [x \in DOMAIN d \cup {k} |-> IF x = k THEN v ELSE d[x]]
DictDel(d, k) == [x \in DOMAIN d \ {k} |-> d[x]]

\* the sequences over S of length at most n
RECURSIVE SeqsUpTo(_, _)
SeqsUpTo(S, n) ==
    IF n = 0 THEN {<<>>}
    ELSE SeqsUpTo(S, n - 1) \cup {Append(q, x) : q \in SeqsUpTo(S, n - 1), x \in S}

RECURSIVE Pow(_, _)
Pow(b, e) == IF e = 0 THEN 1 ELSE b * Pow(b, e - 1)

(***************************************************************************)
(* uuid.UUID: str(u) writes the integer as fixed-width lowercase hex in    *)
(* hyphen-separated groups; uuid.UUID(text) drops the hyphens, wants       *)
(* exactly the full width of hex digits (either case) and reads them back. *)
(***************************************************************************)
HexDigits == <<"0", "1", "2", "3", "4", "5", "6", "7", "8", "9", "a", "b", "c", "d", "e", "f">>
HexUpper == <<"0", "1", "2", "3", "4", "5", "6", "7", "8", "9", "A", "B", "C", "D", "E", "F">>

UuidInts == 0 .. (Pow(16, UuidHexLen) - 1)

RECURSIVE HexOf(_, _)
HexOf(n, width) ==
    IF width = 0 THEN <<>>
    ELSE Append(HexOf(n \div 16, width - 1), HexDigits[(n % 16) + 1])

UuidStr(n) ==
    LET hex == HexOf(n, UuidHexLen)
    IN  IF UuidHexLen < 2 THEN hex
        ELSE <<hex[1]>> \o <<"-">> \o SubSeq(hex, 2, UuidHexLen)

IsHex(c) == \E i \in 1..16 : HexDigits[i] = c \/ HexUpper[i] = c
HexVal(c) == (CHOOSE i \in 1..16 : HexDigits[i] = c \/ HexUpper[i] = c) - 1

RECURSIVE DropHyphens(_)
DropHyphens(s) ==
    IF s = <<>> THEN <<>>
    ELSE IF Head(s) = "-" THEN DropHyphens(Tail(s))
    ELSE <<Head(s)>> \o DropHyphens(Tail(s))

RECURSIVE HexInt(_)
HexInt(s) == IF s = <<>> THEN 0 ELSE HexInt(SubSeq(s, 1, Len(s) - 1)) * 16 + HexVal(s[Len(s)])

\* uuid.UUID(v): AttributeError for a non-str, ValueError for a badly formed str
UuidParse(v) ==
    IF v.t # "str" THEN [ok |-> FALSE, exc |-> "AttributeError"]
    ELSE LET hex == DropHyphens(v.s)
         IN  IF Len(hex) # UuidHexLen \/ \E i \in 1..Len(hex) : ~IsHex(hex[i])
             THEN [ok |-> FALSE, exc |-> "ValueError"]
             ELSE [ok |-> TRUE, val |-> Uuid(HexInt(hex))]

\* str(v) for the values to_mongo applies it to
PyStr(v) == IF v.t = "UUID" THEN Str(UuidStr(v.int)) ELSE v

\* whether a value is, or holds at any depth, a uuid.UUID object
RECURSIVE HoldsUuid(_)
HoldsUuid(v) ==
    \/ v.t = "UUID"
    \/ v.t = "dict" /\ \E k \in DOMAIN v.d : HoldsUuid(v.d[k])


(***************************************************************************)
(* The document classes.  Every variant derives from NoSQLBaseDocument and *)
(* inherits its id field; ExampleSubDocument stands for a class derived    *)
(* from a variant.                                                         *)
(***************************************************************************)
Classes == {"ExampleDocument", "ExampleSubDocument", "RepositoryDocument", "ArticleDocument"}

\* the direct base class
Base(cls) ==
    IF cls = "ExampleSubDocument" THEN "ExampleDocument" ELSE "NoSQLBaseDocument"

\* issubclass(c, d)
IsSubclass(c, d) == c = d \/ Base(c) = d \/ d = "NoSQLBaseDocument"

\* the fields of a class and their types: id from the base class, the others
\* as the class declares them or, for the two variants the strategies build,
\* as the strategy's constructor call fills them
ExampleFields == [id |-> "UUID4", name |-> "str"]
RepositoryFields ==
    [id |-> "UUID4", content |-> "dict", name |-> "str", link |-> "str",
     platform |-> "str", author_id |-> "UUID4", author_full_name |-> "str"]
ArticleFields ==
    [id |-> "UUID4", content |-> "dict", link |-> "str",
     platform |-> "str", author_id |-> "UUID4", author_full_name |-> "str"]

FieldTypes(cls) ==
    CASE cls \in {"ExampleDocument", "ExampleSubDocument"} -> ExampleFields
      [] cls = "RepositoryDocument" -> RepositoryFields
      [] cls = "ArticleDocument" -> ArticleFields

\* cls.Settings.name
get_collection_name(cls) ==
    CASE cls \in {"ExampleDocument", "ExampleSubDocument"} -> "test_collection"
      [] cls = "RepositoryDocument" -> "repositories"
      [] cls = "ArticleDocument" -> "articles"

(***************************************************************************)
(* pydantic: validation of one keyword against a field's annotation, and   *)
(* BaseModel.__init__.  A UUID field takes a UUID or a well-formed str; a  *)
(* str field takes only a str; unknown keywords are ignored; id has a      *)
(* default factory (uuid.uuid4, whose draw is `fresh`) and every other     *)
(* field is required.                                                      *)
(***************************************************************************)
Validate(type, v) ==
    CASE type = "UUID4" ->
            IF v.t = "UUID" THEN [ok |-> TRUE, val |-> v]
            ELSE IF v.t = "str" /\ UuidParse(v).ok THEN [ok |-> TRUE, val |-> UuidParse(v).val]
            ELSE [ok |-> FALSE]
      [] type = "str" -> IF v.t = "str" THEN [ok |-> TRUE, val |-> v] ELSE [ok |-> FALSE]
      [] type = "dict" -> IF v.t = "dict" THEN [ok |-> TRUE, val |-> v] ELSE [ok |-> FALSE]

Construct(cls, kwargs, fresh) ==
    LET types == FieldTypes(cls)
        given == DOMAIN kwargs \cap DOMAIN types
        missing == (DOMAIN types \ given) \ {"id"}
        bad == {k \in given : ~Validate(types[k], kwargs[k]).ok}
    IN  IF missing # {} \/ bad # {}
        THEN [ok |-> FALSE, exc |-> "ValidationError"]
        ELSE [ok |-> TRUE,
              doc |-> [cls |-> cls,
                       f |-> [k \in DOMAIN types |->
                                IF k \in given THEN Validate(types[k], kwargs[k]).val
                                ELSE Uuid(fresh)],
                       set |-> given]]

\* BaseModel.model_dump in python mode: no field of these classes declares an
\* alias that differs from its name, so by_alias leaves the keys as they are;
\* values are copied as they are, a UUID inside a dict included.
FieldAlias(cls, k, by_alias) == k

model_dump(doc, exclude_unset, by_alias) ==
    LET keys == IF exclude_unset THEN doc.set ELSE DOMAIN doc.f
    IN  [a \in {FieldAlias(doc.cls, k, by_alias) : k \in keys} |->
            doc.f[CHOOSE k \in keys : FieldAlias(doc.cls, k, by_alias) = a]]

(***************************************************************************)
(* NoSQLBaseDocument                                                       *)
(***************************************************************************)
\* __eq__ without the isinstance test
DocEq_AnyClass(self, value) == self.f.id = value.f.id

\* __eq__(self, value)
DocEq(self, value) ==
    IF ~IsSubclass(value.cls, self.cls) THEN FALSE
    ELSE self.f.id = value.f.id

\* a == b as the interpreter evaluates it: when type(b) is a proper subclass
\* of type(a), b.__eq__(a) is tried first; __eq__ never returns NotImplemented
PyEquals(a, b) ==
    IF a.cls # b.cls /\ IsSubclass(b.cls, a.cls) THEN DocEq(b, a) ELSE DocEq(a, b)

\* to_mongo with the rename of id to _id left out
to_mongo_KeepsId(self, exclude_unset, by_alias) ==
    LET parsed == model_dump(self, exclude_unset, by_alias)
    IN  [k \in DOMAIN parsed |->
            IF parsed[k].t = "UUID" THEN PyStr(parsed[k]) ELSE parsed[k]]

\* to_mongo(self, exclude_unset=False, by_alias=True)
to_mongo(self, exclude_unset, by_alias) ==
    LET parsed == model_dump(self, exclude_unset, by_alias)
        renamed == IF "_id" \notin DOMAIN parsed /\ "id" \in DOMAIN parsed
                   THEN DictSet(DictDel(parsed, "id"), "_id", PyStr(parsed["id"]))
                   ELSE parsed
    IN  [k \in DOMAIN renamed |->
            IF renamed[k].t = "UUID" THEN PyStr(renamed[k]) ELSE renamed[k]]

\* from_mongo building the instance from the record alone, the parsed id
\* not handed to the constructor
from_mongo_DropsId(cls, data) ==
    IF data = None \/ data = EmptyDict
    THEN [ok |-> FALSE, exc |-> "ValueError", data |-> data]
    ELSE IF "_id" \notin DOMAIN data
    THEN [ok |-> FALSE, exc |-> "KeyError", data |-> data]
    ELSE LET popped == DictDel(data, "_id")
             id == UuidParse(data["_id"])
         IN  IF ~id.ok THEN [ok |-> FALSE, exc |-> id.exc, data |-> popped]
             ELSE LET made == Construct(cls, popped, 0)
                  IN  IF made.ok THEN [ok |-> TRUE, doc |-> made.doc, data |-> popped]
                      ELSE [ok |-> FALSE, exc |-> made.exc, data |-> popped]

\* from_mongo that reads data["_id"] and leaves the mapping as it is
from_mongo_KeepsMapping(cls, data) ==
    IF data = None \/ data = EmptyDict
    THEN [ok |-> FALSE, exc |-> "ValueError", data |-> data]
    ELSE IF "_id" \notin DOMAIN data
    THEN [ok |-> FALSE, exc |-> "KeyError", data |-> data]
    ELSE LET id == UuidParse(data["_id"])
         IN  IF ~id.ok THEN [ok |-> FALSE, exc |-> id.exc, data |-> data]
             ELSE LET made == Construct(cls, DictSet(DictDel(data, "_id"), "id", id.val), 0)
                  IN  IF made.ok THEN [ok |-> TRUE, doc |-> made.doc, data |-> data]
                      ELSE [ok |-> FALSE, exc |-> made.exc, data |-> data]

\* from_mongo(cls, data): the result, and data as the call leaves it
from_mongo(cls, data) ==
    IF data = None \/ data = EmptyDict
    THEN [ok |-> FALSE, exc |-> "ValueError", data |-> data]
    ELSE IF "_id" \notin DOMAIN data
    THEN [ok |-> FALSE, exc |-> "KeyError", data |-> data]
    ELSE LET popped == DictDel(data, "_id")
             id == UuidParse(data["_id"])
         IN  IF ~id.ok THEN [ok |-> FALSE, exc |-> id.exc, data |-> popped]
             ELSE LET made == Construct(cls, DictSet(popped, "id", id.val), 0)
                  IN  IF made.ok THEN [ok |-> TRUE, doc |-> made.doc, data |-> popped]
                      ELSE [ok |-> FALSE, exc |-> made.exc, data |-> popped]


(***************************************************************************)
(* The store as pymongo presents it.  db is [store, written, oids].        *)
(* Encoding a native UUID fails in the client when uuidRepresentation is   *)
(* unspecified; a server-side failure is the caller-supplied flag; _id is  *)
(* unique per collection and generated when the record has none.           *)
(***************************************************************************)
WriteErrors == {"WriteError", "DuplicateKeyError"}

CannotEncode(mapping) ==
    driver = "unspecified" /\ \E k \in DOMAIN mapping : HoldsUuid(mapping[k])

\* a record matches an exact-match filter
Matches(rec, filter) ==
    \A k \in DOMAIN filter : k \in DOMAIN rec /\ rec[k] = filter[k]

Matching(db, coll, filter) ==
    {i \in 1..Len(db.store[coll]) : Matches(db.store[coll][i], filter)}

\* collection.find_one(filter): the first match in natural order, or None
find_one(db, coll, filter, lfail) ==
    IF CannotEncode(filter) THEN [exc |-> "ValueError", rec |-> None]
    ELSE IF lfail THEN [exc |-> "OperationFailure", rec |-> None]
    ELSE LET hits == Matching(db, coll, filter)
         IN  IF hits = {} THEN [exc |-> "", rec |-> None]
             ELSE [exc |-> "",
                   rec |-> db.store[coll][CHOOSE i \in hits : \A j \in hits : i <= j]]

\* insert_one as a replace-or-insert: a record with the _id of rec gives way
\* to rec
insert_one_Replaces(db, coll, rec, of, wfail) ==
    IF CannotEncode(rec) THEN [exc |-> "ValueError", db |-> db]
    ELSE IF wfail THEN [exc |-> "WriteError", db |-> db]
    ELSE LET generated == "_id" \notin DOMAIN rec
             full == IF generated THEN DictSet(rec, "_id", ObjectId(db.oids + 1)) ELSE rec
             same == {i \in 1..Len(db.store[coll]) : db.store[coll][i]["_id"] = full["_id"]}
         IN  IF same # {}
             THEN [exc |-> "",
                   db |-> [store |-> [db.store EXCEPT ![coll] =
                                        [i \in 1..Len(@) |-> IF i \in same THEN full ELSE @[i]]],
                           written |-> [db.written EXCEPT ![coll] =
                                        [i \in 1..Len(@) |-> IF i \in same THEN of ELSE @[i]]],
                           oids |-> db.oids]]
             ELSE [exc |-> "",
                   db |-> [store |-> [db.store EXCEPT ![coll] = Append(@, full)],
                           written |-> [db.written EXCEPT ![coll] = Append(@, of)],
                           oids |-> IF generated THEN db.oids + 1 ELSE db.oids]]

\* collection.insert_one(rec), rec being the serialization of instance `of`
insert_one(db, coll, rec, of, wfail) ==
    IF CannotEncode(rec) THEN [exc |-> "ValueError", db |-> db]
    ELSE IF wfail THEN [exc |-> "WriteError", db |-> db]
    ELSE LET generated == "_id" \notin DOMAIN rec
             full == IF generated THEN DictSet(rec, "_id", ObjectId(db.oids + 1)) ELSE rec
         IN  IF \E i \in 1..Len(db.store[coll]) : db.store[coll][i]["_id"] = full["_id"]
             THEN [exc |-> "DuplicateKeyError", db |-> db]
             ELSE [exc |-> "",
                   db |-> [store |-> [db.store EXCEPT ![coll] = Append(@, full)],
                           written |-> [db.written EXCEPT ![coll] = Append(@, of)],
                           oids |-> IF generated THEN db.oids + 1 ELSE db.oids]]

(***************************************************************************)
(* NoSQLBaseDocument: the store operations.  Each gives the value          *)
(* returned, the exception that left the call ("" for none) and the        *)
(* database afterwards.                                                    *)
(***************************************************************************)
Doc(d) == [t |-> "doc", doc |-> d]

\* save with no except clause: what insert_one raises leaves the call
save_NoCatch(db, self, kw, wfail) ==
    LET r == insert_one(db, get_collection_name(self.cls),
                        to_mongo(self, kw.exclude_unset, kw.by_alias), self, wfail)
    IN  IF r.exc = "" THEN [ret |-> Doc(self), exc |-> "", db |-> r.db]
        ELSE [ret |-> None, exc |-> r.exc, db |-> db]

\* save(self, **kwargs)
save(db, self, kw, wfail) ==
    LET r == insert_one(db, get_collection_name(self.cls),
                        to_mongo(self, kw.exclude_unset, kw.by_alias), self, wfail)
    IN  IF r.exc = "" THEN [ret |-> Doc(self), exc |-> "", db |-> r.db]
        ELSE IF r.exc \in WriteErrors THEN [ret |-> None, exc |-> "", db |-> db]
        ELSE [ret |-> None, exc |-> r.exc, db |-> db]

\* find with no except clause: an operation failure leaves the call
find_NoCatch(db, cls, filter, lfail) ==
    LET r == find_one(db, get_collection_name(cls), filter, lfail)
    IN  IF r.exc # "" THEN [ret |-> None, exc |-> r.exc]
        ELSE IF r.rec = None THEN [ret |-> None, exc |-> ""]
        ELSE LET m == from_mongo(cls, r.rec)
             IN  IF m.ok THEN [ret |-> Doc(m.doc), exc |-> ""]
                 ELSE [ret |-> None, exc |-> m.exc]

\* find(cls, **filter_options)
find(db, cls, filter, lfail) ==
    LET r == find_one(db, get_collection_name(cls), filter, lfail)
    IN  IF r.exc = "OperationFailure" THEN [ret |-> None, exc |-> ""]
        ELSE IF r.exc # "" THEN [ret |-> None, exc |-> r.exc]
        ELSE IF r.rec = None THEN [ret |-> None, exc |-> ""]
        ELSE LET m == from_mongo(cls, r.rec)
             IN  IF m.ok THEN [ret |-> Doc(m.doc), exc |-> ""]
                 ELSE [ret |-> None, exc |-> m.exc]

DefaultKw == [exclude_unset |-> FALSE, by_alias |-> TRUE]

Bool(b) == [t |-> "bool", v |-> b]
List(l) == [t |-> "list", l |-> l]

\* collection.insert_many(records), ordered: the records are inserted one
\* after the other up to the first the store rejects (the wfailAt-th, or one
\* whose _id is taken), which raises BulkWriteError; no record at all is an
\* InvalidOperation, and a record that cannot be encoded a ValueError before
\* anything is sent
RECURSIVE insert_each(_, _, _, _, _, _)
insert_each(db, coll, recs, ofs, k, wfailAt) ==
    IF k > Len(recs) THEN [exc |-> "", db |-> db]
    ELSE LET r == insert_one(db, coll, recs[k], ofs[k], k = wfailAt)
         IN  IF r.exc # "" THEN [exc |-> "BulkWriteError", db |-> db]
             ELSE insert_each(r.db, coll, recs, ofs, k + 1, wfailAt)

insert_many(db, coll, recs, ofs, wfailAt) ==
    IF recs = <<>> THEN [exc |-> "InvalidOperation", db |-> db]
    ELSE IF \E k \in 1..Len(recs) : CannotEncode(recs[k]) THEN [exc |-> "ValueError", db |-> db]
    ELSE insert_each(db, coll, recs, ofs, 1, wfailAt)

\* bulk_insert that catches WriteError alone
bulk_insert_WriteErrorOnly(db, cls, documents, kw, wfailAt) ==
    LET r == insert_many(db, get_collection_name(cls),
                         [k \in 1..Len(documents) |->
                            to_mongo(documents[k], kw.exclude_unset, kw.by_alias)],
                         documents, wfailAt)
    IN  IF r.exc = "" THEN [ret |-> Bool(TRUE), exc |-> "", db |-> r.db]
        ELSE IF r.exc \in WriteErrors
        THEN [ret |-> Bool(FALSE), exc |-> "", db |-> r.db]
        ELSE [ret |-> None, exc |-> r.exc, db |-> r.db]

\* bulk_insert(cls, documents, **kwargs)
bulk_insert(db, cls, documents, kw, wfailAt) ==
    LET r == insert_many(db, get_collection_name(cls),
                         [k \in 1..Len(documents) |->
                            to_mongo(documents[k], kw.exclude_unset, kw.by_alias)],
                         documents, wfailAt)
    IN  IF r.exc = "" THEN [ret |-> Bool(TRUE), exc |-> "", db |-> r.db]
        ELSE IF r.exc \in WriteErrors \cup {"BulkWriteError"}
        THEN [ret |-> Bool(FALSE), exc |-> "", db |-> r.db]
        ELSE [ret |-> None, exc |-> r.exc, db |-> r.db]

\* the list comprehension of bulk_find over the records from the k-th on: the
\* documents so far, or the exception from_mongo raises on a record
RECURSIVE from_mongo_each(_, _, _, _)
from_mongo_each(cls, recs, k, docs) ==
    IF k > Len(recs) THEN [exc |-> "", docs |-> docs]
    ELSE LET m == from_mongo(cls, recs[k])
         IN  IF ~m.ok THEN [exc |-> m.exc, docs |-> docs]
             ELSE from_mongo_each(cls, recs, k + 1, Append(docs, Doc(m.doc)))

\* collection.find(filter): the matching records in natural order
find_all(db, coll, filter, lfail) ==
    IF CannotEncode(filter) THEN [exc |-> "ValueError", recs |-> <<>>]
    ELSE IF lfail THEN [exc |-> "OperationFailure", recs |-> <<>>]
    ELSE [exc |-> "", recs |-> SelectSeq(db.store[coll], LAMBDA rec : Matches(rec, filter))]

\* bulk_find(cls, **filter_options)
bulk_find(db, cls, filter, lfail) ==
    LET r == find_all(db, get_collection_name(cls), filter, lfail)
    IN  IF r.exc = "OperationFailure" THEN [ret |-> List(<<>>), exc |-> ""]
        ELSE IF r.exc # "" THEN [ret |-> None, exc |-> r.exc]
        ELSE LET got == from_mongo_each(cls, r.recs, 1, <<>>)
             IN  IF got.exc # "" THEN [ret |-> None, exc |-> got.exc]
                 ELSE [ret |-> List(got.docs), exc |-> ""]

\* get_or_create without the lookup: a new instance every time
get_or_create_AlwaysCreates(db, cls, filter, lfail, wfail, fresh) ==
    LET new == Construct(cls, filter, fresh)
    IN  IF ~new.ok THEN [ret |-> None, exc |-> new.exc, db |-> db, path |-> "raised"]
        ELSE LET sv == save(db, new.doc, DefaultKw, wfail)
             IN  [ret |-> sv.ret, exc |-> sv.exc, db |-> sv.db,
                  path |-> IF sv.exc = "" THEN "created" ELSE "raised"]

\* get_or_create taking a failed lookup for "not found", as find does
get_or_create_LookupSwallowed(db, cls, filter, lfail, wfail, fresh) ==
    LET r == find_one(db, get_collection_name(cls), filter, lfail)
    IN  IF r.exc = "" /\ r.rec # None
        THEN LET m == from_mongo(cls, r.rec)
             IN  IF m.ok THEN [ret |-> Doc(m.doc), exc |-> "", db |-> db, path |-> "found"]
                 ELSE [ret |-> None, exc |-> m.exc, db |-> db, path |-> "raised"]
        ELSE LET new == Construct(cls, filter, fresh)
             IN  IF ~new.ok THEN [ret |-> None, exc |-> new.exc, db |-> db, path |-> "raised"]
                 ELSE LET sv == save(db, new.doc, DefaultKw, wfail)
                      IN  [ret |-> sv.ret, exc |-> sv.exc, db |-> sv.db,
                           path |-> IF sv.exc = "" THEN "created" ELSE "raised"]

\* get_or_create that hands back the instance it built whatever save returned
get_or_create_ReturnsInstance(db, cls, filter, lfail, wfail, fresh) ==
    LET r == find_one(db, get_collection_name(cls), filter, lfail)
    IN  IF r.exc # "" THEN [ret |-> None, exc |-> r.exc, db |-> db, path |-> "raised"]
        ELSE IF r.rec # None
        THEN LET m == from_mongo(cls, r.rec)
             IN  IF m.ok THEN [ret |-> Doc(m.doc), exc |-> "", db |-> db, path |-> "found"]
                 ELSE [ret |-> None, exc |-> m.exc, db |-> db, path |-> "raised"]
        ELSE LET new == Construct(cls, filter, fresh)
             IN  IF ~new.ok THEN [ret |-> None, exc |-> new.exc, db |-> db, path |-> "raised"]
                 ELSE LET sv == save(db, new.doc, DefaultKw, wfail)
                      IN  [ret |-> Doc(new.doc), exc |-> sv.exc, db |-> sv.db,
                           path |-> IF sv.exc = "" THEN "created" ELSE "raised"]

\* get_or_create(cls, **filter_options); fresh is the draw of uuid.uuid4()
get_or_create(db, cls, filter, lfail, wfail, fresh) ==
    LET r == find_one(db, get_collection_name(cls), filter, lfail)
    IN  IF r.exc # "" THEN [ret |-> None, exc |-> r.exc, db |-> db, path |-> "raised"]
        ELSE IF r.rec # None
        THEN LET m == from_mongo(cls, r.rec)
             IN  IF m.ok THEN [ret |-> Doc(m.doc), exc |-> "", db |-> db, path |-> "found"]
                 ELSE [ret |-> None, exc |-> m.exc, db |-> db, path |-> "raised"]
        ELSE LET new == Construct(cls, filter, fresh)
             IN  IF ~new.ok THEN [ret |-> None, exc |-> new.exc, db |-> db, path |-> "raised"]
                 ELSE LET sv == save(db, new.doc, DefaultKw, wfail)
                      IN  [ret |-> sv.ret, exc |-> sv.exc, db |-> sv.db,
                           path |-> IF sv.exc = "" THEN "created" ELSE "raised"]

\* get_or_create up to the answer of find_one: the call ends with the
\* instance found or with the error, or goes on to create
get_or_create_lookup(db, cls, filter, lfail) ==
    LET r == find_one(db, get_collection_name(cls), filter, lfail)
    IN  IF r.exc # "" THEN [path |-> "raised", ret |-> None, exc |-> r.exc]
        ELSE IF r.rec # None
        THEN LET m == from_mongo(cls, r.rec)
             IN  IF m.ok THEN [path |-> "found", ret |-> Doc(m.doc), exc |-> ""]
                 ELSE [path |-> "raised", ret |-> None, exc |-> m.exc]
        ELSE [path |-> "create", ret |-> None, exc |-> ""]

\* the creation as an upsert: nothing is inserted when a record matches the
\* filter by now
get_or_create_insert_Upsert(db, cls, filter, wfail, fresh) ==
    LET new == Construct(cls, filter, fresh)
    IN  IF ~new.ok THEN [ret |-> None, exc |-> new.exc, db |-> db]
        ELSE IF Matching(db, get_collection_name(cls), filter) # {}
        THEN [ret |-> Doc(new.doc), exc |-> "", db |-> db]
        ELSE save(db, new.doc, DefaultKw, wfail)

\* get_or_create from "not found" on: the new instance is built and saved
get_or_create_insert(db, cls, filter, wfail, fresh) ==
    LET new == Construct(cls, filter, fresh)
    IN  IF ~new.ok THEN [ret |-> None, exc |-> new.exc, db |-> db]
        ELSE save(db, new.doc, DefaultKw, wfail)

(***************************************************************************)
(* URLs.  A str that holds a URL is the sequence of its pieces: the        *)
(* scheme, "://", the pieces of the host ("www." apart from the rest) and  *)
(* the path, every "/" a piece of its own.                                 *)
(***************************************************************************)
\* urlparse(url).netloc: what stands between "://" and the first "/" after
\* it; empty when the text has no "scheme://" in front
netloc(url) ==
    IF Len(url) < 2 \/ url[2] # "://" THEN <<>>
    ELSE LET rest == SubSeq(url, 3, Len(url))
             slashes == {i \in 1..Len(rest) : rest[i] = "/"}
         IN  IF slashes = {} THEN rest
             ELSE SubSeq(rest, 1, (CHOOSE i \in slashes : \A j \in slashes : i <= j) - 1)

\* link.rstrip("/")
RECURSIVE rstrip_slash(_)
rstrip_slash(url) ==
    IF url # <<>> /\ url[Len(url)] = "/" THEN rstrip_slash(SubSeq(url, 1, Len(url) - 1))
    ELSE url

\* link.rstrip("/").split("/")[-1]: what follows the last "/" that is left,
\* the "//" of "://" counting as one
repo_name(url) ==
    LET s == rstrip_slash(url)
        cuts == {i \in 1..Len(s) : s[i] = "/" \/ s[i] = "://"}
    IN  IF cuts = {} THEN s
        ELSE SubSeq(s, (CHOOSE i \in cuts : \A j \in cuts : j <= i) + 1, Len(s))

(***************************************************************************)
(* The crawler strategies.  extract gives the exception that left the call *)
(* ("" for none), the database and the temporary directories afterwards,   *)
(* and whether it went on to acquire the content.  The outside world is    *)
(* the arguments lfail and wfail (the store fails the lookup, the write),  *)
(* clone or page (what the acquisition comes back with) and fresh (the     *)
(* draw of uuid.uuid4()).                                                  *)
(***************************************************************************)
\* GithubCrawler.__init__: the default ignore tuple
GithubIgnore == {".git", ".toml", ".lock", ".png"}

\* the walk over the clone: a file is [dir, file, text], all sequences of
\* pieces; files in a directory whose path starts with an ignored piece or
\* whose name ends with one are skipped, the others are read with their
\* spaces removed
StartsWithAny(s, prefixes) == s # <<>> /\ Head(s) \in prefixes
EndsWithAny(s, suffixes) == s # <<>> /\ s[Len(s)] \in suffixes

\* os.path.join(dir, file)
path_join(dir, file) == IF dir = <<>> THEN file ELSE dir \o <<"/">> \o file

WalkTree(files) ==
    LET kept == {f \in files : ~StartsWithAny(f.dir, GithubIgnore)
                                /\ ~EndsWithAny(f.file, GithubIgnore)}
    IN  [p \in {path_join(f.dir, f.file) : f \in kept} |->
            Str(SelectSeq((CHOOSE f \in kept : path_join(f.dir, f.file) = p).text,
                          LAMBDA t : t # " "))]

\* GithubCrawler.model, CustomArticleCrawler.model
CrawlerModel(crawler) ==
    IF crawler = "GithubCrawler" THEN "RepositoryDocument" ELSE "ArticleDocument"

\* the scrape without the check for an empty clone: the walk of nothing
\* gives an empty tree, and a document with that content is saved
GithubCrawler_scrape_NoEmptyCheck(db, dirs, link, kwargs, clone, wfail, fresh) ==
    LET local_temp == Cardinality(dirs) + 1
        held == dirs \cup {local_temp}
        released == held \ {local_temp}
    IN  IF clone.t = "raises"
        THEN [exc |-> "OSError", db |-> db, dirs |-> released, acquired |-> TRUE]
        ELSE IF "user" \notin DOMAIN kwargs
        THEN [exc |-> "KeyError", db |-> db, dirs |-> released, acquired |-> TRUE]
        ELSE LET made == Construct("RepositoryDocument",
                            [content |-> Dict(WalkTree(clone.files)),
                             name |-> Str(repo_name(link.s)),
                             link |-> link,
                             platform |-> Str(<<"github">>),
                             author_id |-> kwargs.user.id,
                             author_full_name |-> kwargs.user.full_name], fresh)
             IN  IF ~made.ok
                 THEN [exc |-> made.exc, db |-> db, dirs |-> released, acquired |-> TRUE]
                 ELSE LET sv == save(db, made.doc, DefaultKw, wfail)
                      IN  [exc |-> sv.exc, db |-> sv.db, dirs |-> released, acquired |-> TRUE]

\* the scrape with rmtree as the last statement of the try block in place of
\* the finally clause: only the path through save removes the directory
GithubCrawler_scrape_NoFinally(db, dirs, link, kwargs, clone, wfail, fresh) ==
    LET local_temp == Cardinality(dirs) + 1
        held == dirs \cup {local_temp}
        released == held \ {local_temp}
    IN  IF clone.t = "raises"
        THEN [exc |-> "OSError", db |-> db, dirs |-> held, acquired |-> TRUE]
        ELSE IF clone.files = {}
        THEN [exc |-> "", db |-> db, dirs |-> held, acquired |-> TRUE]
        ELSE IF "user" \notin DOMAIN kwargs
        THEN [exc |-> "KeyError", db |-> db, dirs |-> held, acquired |-> TRUE]
        ELSE LET made == Construct("RepositoryDocument",
                            [content |-> Dict(WalkTree(clone.files)),
                             name |-> Str(repo_name(link.s)),
                             link |-> link,
                             platform |-> Str(<<"github">>),
                             author_id |-> kwargs.user.id,
                             author_full_name |-> kwargs.user.full_name], fresh)
             IN  IF ~made.ok
                 THEN [exc |-> made.exc, db |-> db, dirs |-> held, acquired |-> TRUE]
                 ELSE LET sv == save(db, made.doc, DefaultKw, wfail)
                      IN  [exc |-> sv.exc, db |-> sv.db,
                           dirs |-> IF sv.exc = "" THEN released ELSE held,
                           acquired |-> TRUE]

\* GithubCrawler.extract from the clone on: the temporary directory is made,
\* the work is done inside try, and finally the directory is removed
GithubCrawler_scrape(db, dirs, link, kwargs, clone, wfail, fresh) ==
    LET local_temp == Cardinality(dirs) + 1
        held == dirs \cup {local_temp}
        released == held \ {local_temp}
    IN  IF clone.t = "raises"
        THEN [exc |-> "OSError", db |-> db, dirs |-> released, acquired |-> TRUE]
        ELSE IF clone.files = {}
        THEN [exc |-> "", db |-> db, dirs |-> released, acquired |-> TRUE]
        ELSE IF "user" \notin DOMAIN kwargs
        THEN [exc |-> "KeyError", db |-> db, dirs |-> released, acquired |-> TRUE]
        ELSE LET made == Construct("RepositoryDocument",
                            [content |-> Dict(WalkTree(clone.files)),
                             name |-> Str(repo_name(link.s)),
                             link |-> link,
                             platform |-> Str(<<"github">>),
                             author_id |-> kwargs.user.id,
                             author_full_name |-> kwargs.user.full_name], fresh)
             IN  IF ~made.ok
                 THEN [exc |-> made.exc, db |-> db, dirs |-> released, acquired |-> TRUE]
                 ELSE LET sv == save(db, made.doc, DefaultKw, wfail)
                      IN  [exc |-> sv.exc, db |-> sv.db, dirs |-> released, acquired |-> TRUE]

\* extract that scrapes whether or not the link is already stored
GithubCrawler_extract_NoLookup(db, dirs, link, kwargs, lfail, clone, wfail, fresh) ==
    GithubCrawler_scrape(db, dirs, link, kwargs, clone, wfail, fresh)

\* GithubCrawler.extract(link, **kwargs)
GithubCrawler_extract(db, dirs, link, kwargs, lfail, clone, wfail, fresh) ==
    LET old_model == find(db, "RepositoryDocument", [link |-> link], lfail)
    IN  IF old_model.exc # ""
        THEN [exc |-> old_model.exc, db |-> db, dirs |-> dirs, acquired |-> FALSE]
        ELSE IF old_model.ret # None
        THEN [exc |-> "", db |-> db, dirs |-> dirs, acquired |-> FALSE]
        ELSE GithubCrawler_scrape(db, dirs, link, kwargs, clone, wfail, fresh)

\* GithubCrawler.extract up to the answer of find: the call ends there when
\* the link is stored or find raised, or goes on to scrape
GithubCrawler_lookup(db, link, lfail) ==
    LET old_model == find(db, "RepositoryDocument", [link |-> link], lfail)
    IN  IF old_model.exc # "" THEN [path |-> "raised", exc |-> old_model.exc]
        ELSE IF old_model.ret # None THEN [path |-> "found", exc |-> ""]
        ELSE [path |-> "create", exc |-> ""]

\* CustomArticleCrawler.extract(link, **kwargs)
CustomArticleCrawler_extract(db, dirs, link, kwargs, lfail, page, wfail, fresh) ==
    LET old_model == find(db, "ArticleDocument", [link |-> link], lfail)
    IN  IF old_model.exc # ""
        THEN [exc |-> old_model.exc, db |-> db, dirs |-> dirs, acquired |-> FALSE]
        ELSE IF old_model.ret # None
        THEN [exc |-> "", db |-> db, dirs |-> dirs, acquired |-> FALSE]
        ELSE IF page.t = "raises"
        THEN [exc |-> "OSError", db |-> db, dirs |-> dirs, acquired |-> TRUE]
        ELSE IF page.docs = <<>>
        THEN [exc |-> "IndexError", db |-> db, dirs |-> dirs, acquired |-> TRUE]
        ELSE IF "user" \notin DOMAIN kwargs
        THEN [exc |-> "KeyError", db |-> db, dirs |-> dirs, acquired |-> TRUE]
        ELSE LET doc_transformed == page.docs[1]
                 meta == doc_transformed.metadata
                 get(k) == IF k \in DOMAIN meta THEN meta[k] ELSE None
                 content == [Title |-> get("title"), Subtitle |-> get("description"),
                             Content |-> doc_transformed.page_content,
                             language |-> get("language")]
                 made == Construct("ArticleDocument",
                            [content |-> Dict(content),
                             link |-> link,
                             platform |-> Str(netloc(link.s)),
                             author_id |-> kwargs.user.id,
                             author_full_name |-> kwargs.user.full_name], fresh)
             IN  IF ~made.ok
                 THEN [exc |-> made.exc, db |-> db, dirs |-> dirs, acquired |-> TRUE]
                 ELSE LET sv == save(db, made.doc, DefaultKw, wfail)
                      IN  [exc |-> sv.exc, db |-> sv.db, dirs |-> dirs, acquired |-> TRUE]

\* crawler.extract(link=link, **kwargs) on an instance of either strategy
extract(crawler, db, dirs, link, kwargs, lfail, got, wfail, fresh) ==
    IF crawler = "GithubCrawler"
    THEN GithubCrawler_extract(db, dirs, link, kwargs, lfail, got, wfail, fresh)
    ELSE CustomArticleCrawler_extract(db, dirs, link, kwargs, lfail, got, wfail, fresh)

(***************************************************************************)
(* CrawlerDispatcher.  A key of _crawlers is the regular expression        *)
(* register builds, as the sequence of its parts: the literal pieces, the  *)
(* optional "www." and the closing run of slashes.                         *)
(***************************************************************************)
Lit(piece) == [re |-> "lit", s |-> piece]
OptWww == [re |-> "opt", s |-> "www."]
Slashes == [re |-> "star", s |-> "/"]

\* re.escape(domain): every piece stands for itself
RECURSIVE re_escape(_)
re_escape(domain) ==
    IF domain = <<>> THEN <<>> ELSE <<Lit(Head(domain))>> \o re_escape(Tail(domain))

\* r"https://(www\.)?{}/*".format(re.escape(domain))
PatternOf(domain) == <<Lit("https"), Lit("://"), OptWww>> \o re_escape(domain) \o <<Slashes>>

\* CrawlerDispatcher.build(): the dispatcher's empty dict
build == <<>>

\* register that keys the pattern by the text it is given, not by its netloc
register_RawDomain(crawlers, domain, crawler) ==
    DictSet(crawlers, PatternOf(domain), crawler)

\* register(self, domain, crawler)
register(crawlers, domain, crawler) ==
    DictSet(crawlers, PatternOf(netloc(domain)), crawler)

\* register_github(self)
register_github(crawlers) ==
    register(crawlers, <<"https", "://", "github.com">>, "GithubCrawler")

\* whether the whole of text s is matched by pattern p
RECURSIVE FullMatch(_, _)
FullMatch(p, s) ==
    IF p = <<>> THEN s = <<>>
    ELSE CASE Head(p).re = "lit" ->
                s # <<>> /\ Head(s) = Head(p).s /\ FullMatch(Tail(p), Tail(s))
           [] Head(p).re = "opt" ->
                \/ FullMatch(Tail(p), s)
                \/ s # <<>> /\ Head(s) = Head(p).s /\ FullMatch(Tail(p), Tail(s))
           [] Head(p).re = "star" ->
                \/ FullMatch(Tail(p), s)
                \/ s # <<>> /\ Head(s) = Head(p).s /\ FullMatch(p, Tail(s))

\* get_crawler(self, url): the domain is taken from the URL and looked up
\* among the registered patterns, the pattern of that very domain before one
\* that takes it for its www variant; no match is an error
get_crawler(crawlers, url) ==
    LET domain == netloc(url)
        hits == {p \in DOMAIN crawlers : FullMatch(p, <<"https", "://">> \o domain)}
        exact == {p \in hits : p = PatternOf(domain)}
    IN  IF hits = {} THEN [exc |-> "ValueError", ret |-> None]
        ELSE [exc |-> "",
              ret |-> [t |-> "crawler",
                       cls |-> crawlers[CHOOSE p \in hits : exact # {} => p \in exact]]]

(***************************************************************************)
(* The batch runner of tests/document_retriever.py.                        *)
(***************************************************************************)
\* _add_to_metadata that starts the entry of the domain anew at every call
_add_to_metadata_Overwrites(metadata, domain, successfull_crawl) ==
    DictSet(metadata, domain,
            [successful |-> IF successfull_crawl THEN 1 ELSE 0, total |-> 1])

\* _add_to_metadata(metadata, domain, successfull_crawl)
_add_to_metadata(metadata, domain, successfull_crawl) ==
    LET entry == IF domain \in DOMAIN metadata THEN metadata[domain]
                 ELSE [successful |-> 0, total |-> 0]
    IN  DictSet(metadata, domain,
                [successful |-> entry.successful + (IF successfull_crawl THEN 1 ELSE 0),
                 total |-> entry.total + 1])

\* _crawler_link that tells success by what the store gained
_crawler_link_CountsPersisted(crawlers, db, dirs, link, user, lfail, got, wfail, fresh) ==
    LET crawler == get_crawler(crawlers, link.s)
    IN  IF crawler.exc # ""
        THEN [exc |-> crawler.exc, db |-> db, dirs |-> dirs]
        ELSE LET crawler_domain == netloc(link.s)
                 r == extract(crawler.ret.cls, db, dirs, link, [user |-> user],
                              lfail, got, wfail, fresh)
             IN  [exc |-> "", ret |-> <<r.db # db, crawler_domain>>, logged |-> r.exc,
                  db |-> r.db, dirs |-> r.dirs]

\* _crawler_link(dispatcher, link, user): the pair returned and the error
\* handed to logger.error ("" for none), or the exception that left the
\* call, and the database afterwards
_crawler_link(crawlers, db, dirs, link, user, lfail, got, wfail, fresh) ==
    LET crawler == get_crawler(crawlers, link.s)
    IN  IF crawler.exc # ""
        THEN [exc |-> crawler.exc, db |-> db, dirs |-> dirs]
        ELSE LET crawler_domain == netloc(link.s)
                 r == extract(crawler.ret.cls, db, dirs, link, [user |-> user],
                              lfail, got, wfail, fresh)
             IN  [exc |-> "", ret |-> <<r.exc = "", crawler_domain>>, logged |-> r.exc,
                  db |-> r.db, dirs |-> r.dirs]

(***************************************************************************)
(* MongoDatabaseConnector.__new__: [instance, clients, exc], given whether *)
(* MongoClient(...) raises ConnectionFailure.  A client is known by its    *)
(* number in the order of construction.  The _NoCheck variant constructs a *)
(* client without looking at _instance.                                    *)
(***************************************************************************)
MongoDatabaseConnector_new_NoCheck(inst, made, cfail) ==
    IF cfail THEN [instance |-> inst, clients |-> made, exc |-> "ConnectionError"]
    ELSE [instance |-> made + 1, clients |-> made + 1, exc |-> ""]

MongoDatabaseConnector_new(inst, made, cfail) ==
    IF inst = 0
    THEN IF cfail THEN [instance |-> inst, clients |-> made, exc |-> "ConnectionError"]
         ELSE [instance |-> made + 1, clients |-> made + 1, exc |-> ""]
    ELSE [instance |-> inst, clients |-> made, exc |-> ""]

(***************************************************************************)
(* Values the model draws its inputs from.                                 *)
(***************************************************************************)
IdPool == {7, 240}
Names == {Str(<<"Test Entry">>), Str(<<"Entry 0">>)}
Contents ==
    { Dict(EmptyDict),
      Dict([Title |-> Str(<<"T">>), Subtitle |-> None]),
      Dict([ref |-> Uuid(240)]) }

\* the instances ExampleDocument(name=n) and ExampleDocument(id=i, name=n) and
\* the same for the derived class
ExampleDocs ==
    { Construct(c, [name |-> n], i).doc :
        c \in {"ExampleDocument", "ExampleSubDocument"}, n \in Names, i \in IdPool }
    \cup
    { Construct(c, [id |-> Uuid(i), name |-> n], 0).doc :
        c \in {"ExampleDocument", "ExampleSubDocument"}, n \in Names, i \in IdPool }

\* the instances the article strategy builds, around any content
ArticleDocs ==
    { Construct("ArticleDocument",
                [content |-> c, link |-> Str(<<"https://", "example.com", "/", "a">>),
                 platform |-> Str(<<"example.com">>), author_id |-> Uuid(a),
                 author_full_name |-> Str(<<"Ada L">>)], i).doc :
        c \in Contents, a \in IdPool, i \in IdPool }

EmptyStore == [c \in {get_collection_name(cls) : cls \in Classes} |-> <<>>]
NoCall ==
    [op |-> "none", cls |-> "", arg |-> None, kw |-> None, ret |-> None, exc |-> "",
     lfail |-> FALSE, wfail |-> FALSE, before |-> 0, inserted |-> 0, rep |-> FALSE,
     acquired |-> FALSE, got |-> ""]
NoBatch == [pc |-> "idle"]
Callers == {1, 2}
NoCaller ==
    [pc |-> "idle", op |-> "", arg |-> None, seen |-> 0, wfail |-> FALSE, got |-> "",
     exc |-> ""]

connVars == <<_instance, driver, clients>>
odmVars == <<store, written, oids, tempdirs, last, callers>>
dispVars == <<_crawlers, registered, batch>>
pureVars == <<inp, out>>

ConnIdle == _instance = 0 /\ clients = 0 /\ driver = "unspecified"
OdmIdle ==
    /\ store = EmptyStore /\ written = EmptyStore /\ oids = 0 /\ tempdirs = {} /\ last = NoCall
    /\ callers = [p \in Callers |-> NoCaller]
DispIdle == _crawlers = <<>> /\ registered = <<>> /\ batch = NoBatch
PureIdle == inp = None /\ out = None

(***************************************************************************)
(* Equality of instances: a == b and b == a for every pair of instances.   *)
(***************************************************************************)
EqInit ==
    /\ ConnIdle /\ OdmIdle /\ DispIdle
    /\ inp \in [a : ExampleDocs \cup ArticleDocs, b : ExampleDocs \cup ArticleDocs]
    /\ out = None

EvalEq ==
    /\ out = None
    /\ out' = [t |-> "eq", ab |-> PyEquals(inp.a, inp.b), ba |-> PyEquals(inp.b, inp.a)]
    /\ UNCHANGED <<connVars, odmVars, dispVars, inp>>

EqNext == EvalEq

SpecEq == EqInit /\ [][EqNext]_vars

\* C2: for any two instances a and b, a == b holds exactly when they are of
\* the same concrete class and have the same id, and a == b iff b == a.
C2_EqIffSameVariantAndId ==
    out.t = "eq" =>
        /\ out.ab <=> (inp.a.cls = inp.b.cls /\ inp.a.f.id = inp.b.f.id)
        /\ out.ab <=> out.ba

\* an instance of a variant compared with an instance of its derived class
\* that carries the same id: they are not equal
C2_Witness ==
    /\ out.t = "eq"
    /\ inp.a.cls = "ExampleDocument" /\ inp.b.cls = "ExampleSubDocument"
    /\ inp.a.f.id = inp.b.f.id
    /\ ~out.ab /\ ~out.ba

(***************************************************************************)
(* Serialization: to_mongo under every flag combination, then from_mongo   *)
(* of what it returned.                                                    *)
(***************************************************************************)
SerInit ==
    /\ ConnIdle /\ OdmIdle /\ DispIdle
    /\ inp \in [doc : ExampleDocs \cup ArticleDocs, exclude_unset : BOOLEAN, by_alias : BOOLEAN]
    /\ out = None

SerToMongo ==
    /\ out = None
    /\ out' = [t |-> "dumped", mongo |-> to_mongo(inp.doc, inp.exclude_unset, inp.by_alias)]
    /\ UNCHANGED <<connVars, odmVars, dispVars, inp>>

SerFromMongo ==
    /\ out.t = "dumped"
    /\ out' = [t |-> "loaded", mongo |-> out.mongo, back |-> from_mongo(inp.doc.cls, out.mongo)]
    /\ UNCHANGED <<connVars, odmVars, dispVars, inp>>

\* mappings that no to_mongo call of this specification returns: the empty
\* one, one without _id, one whose _id the store generated, one of _id alone
RawMappings ==
    { EmptyDict,
      [name |-> Str(<<"Test Entry">>)],
      [_id |-> ObjectId(1), name |-> Str(<<"Test Entry">>)],
      [_id |-> Str(UuidStr(7))] }

\* cls.from_mongo(data) on a mapping made by hand
SerFromRaw ==
    \E data \in RawMappings :
        /\ out = None
        /\ out' = [t |-> "called", mongo |-> data, back |-> from_mongo(inp.doc.cls, data)]
        /\ UNCHANGED <<connVars, odmVars, dispVars, inp>>

\* cls.from_mongo(data) once more, on the mapping the call before was given
SerFromMongoAgain ==
    /\ out.t \in {"loaded", "called"}
    /\ out' = [t |-> "again", mongo |-> out.back.data, first |-> out.back,
               back |-> from_mongo(inp.doc.cls, out.back.data)]
    /\ UNCHANGED <<connVars, odmVars, dispVars, inp>>

SerNext == SerToMongo \/ SerFromMongo \/ SerFromRaw \/ SerFromMongoAgain

SpecSer == SerInit /\ [][SerNext]_vars


DefaultFlags == ~inp.exclude_unset /\ inp.by_alias

\* C3: from_mongo(to_mongo(doc)) is an instance of doc's class with doc's id
\* and doc's value in every other field.
C3_RoundTrip ==
    out.t = "loaded" /\ DefaultFlags =>
        /\ out.back.ok
        /\ out.back.doc.cls = inp.doc.cls
        /\ out.back.doc.f = inp.doc.f

\* an article with an auto-generated id and an author_id went through text
\* and came back
C3_Witness ==
    /\ out.t = "loaded" /\ DefaultFlags
    /\ inp.doc.cls = "ArticleDocument" /\ "id" \notin inp.doc.set
    /\ out.mongo["_id"].t = "str" /\ out.mongo["author_id"].t = "str"
    /\ out.back.ok /\ out.back.doc.f.author_id = inp.doc.f.author_id

\* C4: under every flag combination the mapping to_mongo returns has the key
\* _id holding the string form of the id, and has no key id.
C4_IdKeyAlways ==
    out.t = "dumped" =>
        /\ "_id" \in DOMAIN out.mongo
        /\ out.mongo["_id"] = Str(UuidStr(inp.doc.f.id.int))
        /\ "id" \notin DOMAIN out.mongo

\* C5: the mapping to_mongo returns holds no UUID object anywhere, nested
\* mappings included.
C5_NoUuidLeft ==
    out.t = "dumped" => \A k \in DOMAIN out.mongo : ~HoldsUuid(out.mongo[k])


\* C26: a from_mongo call on a mapping that is not empty leaves the mapping
\* without _id and with every other key and value as it was; a second call
\* on that mapping fails and returns no document; a call on the empty
\* mapping raises a ValueError and returns no document.
C26_ConsumesId ==
    /\ (out.t \in {"loaded", "called"} /\ out.mongo # EmptyDict) =>
        /\ DOMAIN out.back.data = DOMAIN out.mongo \ {"_id"}
        /\ \A k \in DOMAIN out.back.data : out.back.data[k] = out.mongo[k]
    /\ (out.t \in {"loaded", "called"} /\ out.mongo = EmptyDict) =>
        /\ ~out.back.ok /\ out.back.exc = "ValueError" /\ out.back.data = EmptyDict
    /\ out.t = "again" =>
        /\ ~out.back.ok /\ out.back.exc \in {"KeyError", "ValueError"}

\* a mapping that to_mongo returned gave a document at the first from_mongo
\* call and a KeyError at the second
C26_Witness ==
    /\ out.t = "again" /\ out.first.ok
    /\ "_id" \notin DOMAIN out.mongo /\ "name" \in DOMAIN out.mongo
    /\ ~out.back.ok /\ out.back.exc = "KeyError"

(***************************************************************************)
(* The connector and the document mapper, called one call at a time.       *)
(***************************************************************************)
DB == [store |-> store, written |-> written, oids |-> oids]

\* the record of a call: what it was given, what came back, what the store
\* was told to do (lfail, wfail: the lookup, the write fails in the server),
\* how many records matched its filter before it, how many it inserted, and
\* whether it repeats the call before it; for a request for the connection,
\* lfail is whether a new client would fail to connect, before the handle
\* held before it and inserted the number of clients it constructed
Called(op, cls, arg, kw, ret, exc, lfail, wfail, before, inserted) ==
    [op |-> op, cls |-> cls, arg |-> arg, kw |-> kw, ret |-> ret, exc |-> exc,
     lfail |-> lfail, wfail |-> wfail, before |-> before, inserted |-> inserted,
     rep |-> (last.op = op /\ last.cls = cls /\ last.arg = arg),
     acquired |-> FALSE, got |-> ""]

\* the UUIDs already in use, which uuid.uuid4() will not draw again
UsedIds ==
    UNION {{written[c][k].f.id.int : k \in 1..Len(written[c])} : c \in DOMAIN written}

OdmDocs == {d \in ExampleDocs : d.cls = "ExampleDocument" /\ "id" \notin d.set}
OdmKw == {DefaultKw, [exclude_unset |-> TRUE, by_alias |-> TRUE]}
FindFilters ==
    {EmptyDict}
    \cup {[name |-> n] : n \in Names}
    \cup {[_id |-> Str(UuidStr(i))] : i \in IdPool}
    \cup {[id |-> Uuid(i)] : i \in IdPool}
CreateFilters ==
    {EmptyDict}
    \cup {[name |-> n] : n \in Names}
    \cup {[id |-> Uuid(i), name |-> n] : i \in IdPool, n \in Names}

\* uuid.uuid4(): a UUID not in use, none being preferred to another; when
\* the model's pool is used up nothing may be inserted any more
FreshIds == IdPool \ UsedIds
Fresh == IF FreshIds = {} THEN CHOOSE i \in IdPool : TRUE ELSE CHOOSE i \in FreshIds : TRUE

Drawn(db) == db = DB \/ FreshIds # {}

Imported == _instance = 1 /\ clients = 1 /\ driver \in {"unspecified", "pythonLegacy"}

SetDb(db) == store' = db.store /\ written' = db.written /\ oids' = db.oids

\* MongoDatabaseConnector()
Connect ==
    \E cfail \in BOOLEAN :
        LET r == MongoDatabaseConnector_new(_instance, clients, cfail)
        IN  /\ clients < MaxClients
            /\ _instance' = r.instance
            /\ clients' = r.clients
            /\ last' = Called("connect", "", None, None,
                              IF r.exc = "" THEN r.instance ELSE None, r.exc,
                              cfail, FALSE, _instance, r.clients - clients)
            /\ UNCHANGED <<driver, store, written, oids, tempdirs, dispVars, pureVars, callers>>

\* doc.save(**kw)
CallSave ==
    \E d \in OdmDocs, kw \in OdmKw, wfail \in BOOLEAN :
        LET coll == get_collection_name(d.cls)
        IN  /\ _instance # 0
            /\ Len(store[coll]) < MaxRecords
            /\ \E r \in {save(DB, d, kw, wfail)} :
                /\ SetDb(r.db)
                /\ last' = Called("save", d.cls, d, kw, r.ret, r.exc, FALSE, wfail,
                                  Len(store[coll]), Len(r.db.store[coll]) - Len(store[coll]))
            /\ UNCHANGED <<connVars, tempdirs, dispVars, pureVars, callers>>

\* cls.find(**filter)
CallFind ==
    \E filter \in FindFilters, lfail \in BOOLEAN :
        LET cls == "ExampleDocument"
        IN  /\ _instance # 0
            /\ \E r \in {find(DB, cls, filter, lfail)} :
                last' = Called("find", cls, filter, None, r.ret, r.exc, lfail, FALSE,
                               Cardinality(Matching(DB, get_collection_name(cls), filter)), 0)
            /\ UNCHANGED <<connVars, store, written, oids, tempdirs, dispVars, pureVars, callers>>

\* cls.get_or_create(**filter)
CallGetOrCreate ==
    \E filter \in CreateFilters, lfail \in BOOLEAN, wfail \in BOOLEAN :
        LET cls == "ExampleDocument"
            coll == get_collection_name(cls)
        IN  /\ _instance # 0
            /\ \E r \in {get_or_create(DB, cls, filter, lfail, wfail, Fresh)} :
                /\ Len(r.db.store[coll]) <= MaxRecords /\ Drawn(r.db)
                /\ SetDb(r.db)
                /\ last' = Called("get_or_create", cls, filter, None, r.ret, r.exc, lfail, wfail,
                                  Cardinality(Matching(DB, coll, filter)),
                                  Len(r.db.store[coll]) - Len(store[coll]))
            /\ UNCHANGED <<connVars, tempdirs, dispVars, pureVars, callers>>

(***************************************************************************)
(* The connector, save and find, from before the first connection.         *)
(***************************************************************************)
Init ==
    /\ _instance = 0 /\ clients = 0 /\ driver \in {"unspecified", "pythonLegacy"}
    /\ OdmIdle /\ DispIdle /\ PureIdle

Next == Connect \/ CallSave \/ CallFind

Spec == Init /\ [][Next]_vars

\* C1: at most one client has ever been constructed, and a request for the
\* connection made when a handle is already held returns that handle, raises
\* nothing and constructs no client.
C1_OneClient ==
    /\ clients <= 1
    /\ (last.op = "connect" /\ last.before # 0) =>
            (last.ret = last.before /\ last.exc = "" /\ last.inserted = 0)

\* a request made with the handle held, at a moment when a new client could
\* not have connected: it returned the first client
C1_Witness ==
    /\ last.op = "connect" /\ last.before = 1 /\ last.lfail
    /\ last.ret = 1 /\ clients = 1

\* the instances of the collection that carry value v in field k, and whether
\* record i is what a plain save() of its instance stores
Carriers(coll, k, v) == {i \in 1..Len(written[coll]) : written[coll][i].f[k] = v}
PlainlySaved(coll, i) == store[coll][i] = to_mongo(written[coll][i], FALSE, TRUE)

\* find was called with a filter on field k alone, whose value exactly one
\* instance of the collection carries, saved by a plain save()
FoundTheSaved(k) ==
    /\ last.exc = "" /\ last.ret.t = "doc"
    /\ \A i \in Carriers(get_collection_name(last.cls), k, last.arg[k]) :
            last.ret.doc.f.id = written[get_collection_name(last.cls)][i].f.id
    /\ last.ret.doc.f[k] = last.arg[k]

FindOnField(k) ==
    /\ last.op = "find" /\ DOMAIN last.arg = {k}
    /\ Cardinality(Carriers(get_collection_name(last.cls), k, last.arg[k])) = 1
    /\ \A i \in Carriers(get_collection_name(last.cls), k, last.arg[k]) :
            PlainlySaved(get_collection_name(last.cls), i)

\* C6 as stated: after a successful doc.save(), find with a filter on a field
\* value that only doc carries returns a document with doc's id and the
\* filtered value.
C6_Original ==
    \A k \in DOMAIN FieldTypes("ExampleDocument") : FindOnField(k) => FoundTheSaved(k)

\* C6 amended: the same for a filter on a text field (not the id, which is
\* stored under _id in string form), when the lookup does not fail with an
\* operation failure.
C6_FindAfterSave ==
    \A k \in DOMAIN FieldTypes("ExampleDocument") :
        (FindOnField(k) /\ FieldTypes("ExampleDocument")[k] = "str" /\ ~last.lfail)
            => FoundTheSaved(k)

\* find(name=...) after a plain save(), another record in the collection
C6_Witness ==
    /\ FindOnField("name") /\ ~last.lfail /\ FoundTheSaved("name")
    /\ Len(store["test_collection"]) = 2

\* the store rejects the insert the step's save makes: the server fails the
\* write, or a record of the collection already has the _id
Rejected ==
    \/ last'.wfail
    \/ \E i \in 1..Len(store[get_collection_name(last'.cls)]) :
            store[get_collection_name(last'.cls)][i]["_id"] = Str(UuidStr(last'.arg.f.id.int))

\* C11: save raises nothing; a save whose insert the store rejects returns
\* None and leaves the store as it was; a save that returns a document
\* returns the one it was called on and the collection has gained exactly one
\* record, at its end; after a save() that record's _id is the string form
\* of the document's id.
C11_SaveSwallowsWriteErrors ==
    [][last'.op = "save" =>
        /\ last'.exc = ""
        /\ last'.wfail => (last'.ret = None /\ store' = store)
        /\ last'.ret = None => store' = store
        /\ last'.ret # None =>
            /\ last'.ret = Doc(last'.arg)
            /\ store' = [store EXCEPT ![get_collection_name(last'.cls)] =
                            Append(@, store'[get_collection_name(last'.cls)]
                                        [Len(store'[get_collection_name(last'.cls)])])]
        /\ last'.kw = DefaultKw =>
            /\ Rejected <=> last'.ret = None
            /\ ~Rejected =>
                store'[get_collection_name(last'.cls)]
                    [Len(store'[get_collection_name(last'.cls)])]["_id"]
                        = Str(UuidStr(last'.arg.f.id.int))]_vars

\* a save() met a duplicate key, the server not failing: None came back,
\* nothing was raised, nothing inserted
C11_Witness ==
    /\ last.op = "save" /\ last.kw = DefaultKw /\ ~last.wfail
    /\ last.ret = None /\ last.exc = "" /\ last.inserted = 0
    /\ \E i \in 1..Len(store["test_collection"]) :
            store["test_collection"][i]["_id"] = Str(UuidStr(last.arg.f.id.int))

\* C12: find changes nothing in the store and returns None or one document;
\* when the lookup reaches the store and fails with an operation failure it
\* returns None and raises nothing, and so it does when no record matches.
C12_FindNoneOnFailure ==
    [][last'.op = "find" =>
        /\ store' = store /\ oids' = oids
        /\ last'.ret = None \/ last'.ret.t = "doc"
        /\ (last'.lfail /\ ~CannotEncode(last'.arg)) =>
                (last'.ret = None /\ last'.exc = "")
        /\ (Matching(DB, get_collection_name(last'.cls), last'.arg) = {}
                /\ ~CannotEncode(last'.arg)) =>
                (last'.ret = None /\ last'.exc = "")]_vars

\* a lookup by name failed in the store while a record matched: None came
\* back and nothing was raised
C12_Witness ==
    /\ last.op = "find" /\ last.lfail /\ DOMAIN last.arg = {"name"}
    /\ last.before >= 1
    /\ last.ret = None /\ last.exc = ""

(***************************************************************************)
(* save and get_or_create, the package imported and connected.             *)
(***************************************************************************)
GocInit == Imported /\ OdmIdle /\ DispIdle /\ PureIdle

GocNext == CallSave \/ CallGetOrCreate

SpecGoc == GocInit /\ [][GocNext]_vars

\* a step that is the second of two get_or_create calls with identical
\* filters, the store failing in neither
SecondOfTwo ==
    /\ last.op = "get_or_create" /\ last'.op = "get_or_create"
    /\ last'.cls = last.cls /\ last'.arg = last.arg
    /\ ~last.lfail /\ ~last.wfail /\ ~last'.lfail /\ ~last'.wfail

MatchingAfter == Cardinality(Matching([store |-> store'], get_collection_name(last'.cls), last'.arg))

C15_LookupFailurePropagates ==
    [][(last'.op = "get_or_create" /\ last'.lfail) =>
        /\ last'.exc # "" /\ last'.ret = None
        /\ ~CannotEncode(last'.arg) => last'.exc = "OperationFailure"
        /\ last'.inserted = 0 /\ store' = store /\ written' = written]_vars

\* the lookup failed while no record matched: the error came out, and no
\* record was created in place of the answer
C15_Witness ==
    /\ last.op = "get_or_create" /\ last.lfail /\ last.before = 0
    /\ last.exc = "OperationFailure" /\ last.inserted = 0
    /\ Matching(DB, get_collection_name(last.cls), last.arg) = {}

\* C25: a get_or_create whose lookup answers with no record, whose new
\* instance is built and whose insert the store rejects with a write error
\* returns None and raises nothing; the store is as it was, and no record
\* matches the filters.
C25_NoneWhenInsertRejected ==
    [][(/\ last'.op = "get_or_create" /\ ~last'.lfail /\ last'.wfail
        /\ last'.before = 0 /\ ~CannotEncode(last'.arg)
        /\ Construct(last'.cls, last'.arg, Fresh).ok) =>
            /\ last'.ret = None /\ last'.exc = ""
            /\ store' = store /\ MatchingAfter = 0]_vars

\* get_or_create by name came back with None and no exception after a
\* rejected insert, and no record has the name
C25_Witness ==
    /\ last.op = "get_or_create" /\ ~last.lfail /\ last.wfail /\ last.before = 0
    /\ DOMAIN last.arg = {"name"}
    /\ last.ret = None /\ last.exc = ""
    /\ Matching(DB, get_collection_name(last.cls), last.arg) = {}

(***************************************************************************)
(* The crawler strategies, one extract call at a time.                     *)
(***************************************************************************)
GithubLinks ==
    { Str(<<"https", "://", "github.com", "/", "u", "/", "r">>),
      Str(<<"https", "://", "github.com", "/", "u", "/", "r", "/">>) }
ArticleLinks ==
    { Str(<<"https", "://", "example.com", "/", "a">>),
      Str(<<"https", "://", "www.", "example.org", "/", "b">>) }

RepoFiles ==
    { [dir |-> <<"src">>, file |-> <<"main", ".py">>, text |-> <<"x", " ", "=", " ", "1">>],
      [dir |-> <<".git", "hub">>, file |-> <<"ci", ".yml">>, text |-> <<"on">>],
      [dir |-> <<>>, file |-> <<"poetry", ".lock">>, text |-> <<"lock">>] }
Clones == { [t |-> "raises"], [t |-> "cloned", files |-> {}], [t |-> "cloned", files |-> RepoFiles] }
Pages ==
    { [t |-> "raises"], [t |-> "loaded", docs |-> <<>>],
      [t |-> "loaded",
       docs |-> << [metadata |-> [title |-> Str(<<"T">>), language |-> Str(<<"en">>)],
                    page_content |-> Str(<<"text">>)] >>] }

\* the user handed to extract: a UserDocument, of which extract reads id and
\* full_name
Users == { [id |-> Uuid(240), full_name |-> Str(<<"Ada L">>)] }
ExtractKwargs == {[user |-> u] : u \in Users} \cup {EmptyDict}

\* the stored records of a strategy's collection that carry the link
WithLink(db, crawler, link) ==
    Matching(db, get_collection_name(CrawlerModel(crawler)), [link |-> link])

\* what the clone or the page load of an extract came back with
Fetched(got) ==
    IF got.t = "raises" THEN "raises"
    ELSE IF got.t = "cloned" THEN (IF got.files = {} THEN "empty" ELSE "full")
    ELSE IF got.docs = <<>> THEN "empty" ELSE "full"

Extracted(crawler, link, kwargs, lfail, got, wfail, r) ==
    [op |-> "extract", cls |-> crawler, arg |-> link, kw |-> kwargs, ret |-> None,
     exc |-> r.exc, lfail |-> lfail, wfail |-> wfail,
     before |-> Cardinality(WithLink(DB, crawler, link)),
     inserted |-> Cardinality(WithLink(r.db, crawler, link))
                    - Cardinality(WithLink(DB, crawler, link)),
     rep |-> (last.op = "extract" /\ last.cls = crawler /\ last.arg = link),
     acquired |-> r.acquired, got |-> IF r.acquired THEN Fetched(got) ELSE ""]

Extract(crawler, link, kwargs, lfail, got, wfail) ==
    /\ _instance # 0
    /\ \E r \in {extract(crawler, DB, tempdirs, link, kwargs, lfail, got, wfail, Fresh)} :
        /\ Len(r.db.store[get_collection_name(CrawlerModel(crawler))]) <= MaxRecords
        /\ Drawn(r.db)
        /\ SetDb(r.db)
        /\ tempdirs' = r.dirs
        /\ last' = Extracted(crawler, link, kwargs, lfail, got, wfail, r)
    /\ UNCHANGED <<connVars, dispVars, pureVars, callers>>

\* GithubCrawler().extract(link, **kwargs)
GithubExtract ==
    \E link \in GithubLinks, kwargs \in ExtractKwargs, lfail \in BOOLEAN,
       clone \in Clones, wfail \in BOOLEAN :
        Extract("GithubCrawler", link, kwargs, lfail, clone, wfail)

\* CustomArticleCrawler().extract(link, **kwargs)
ArticleExtract ==
    \E link \in ArticleLinks, kwargs \in ExtractKwargs, lfail \in BOOLEAN,
       page \in Pages, wfail \in BOOLEAN :
        Extract("CustomArticleCrawler", link, kwargs, lfail, page, wfail)

CrawlInit == Imported /\ OdmIdle /\ DispIdle /\ PureIdle

CrawlNext == GithubExtract \/ ArticleExtract

SpecCrawl == CrawlInit /\ [][CrawlNext]_vars

\* the documents now persisted with the link of the last extract
LinkCount == Cardinality(WithLink(DB, last.cls, last.arg))

\* a step that is the second of two extracts of one strategy on one link
SecondExtract ==
    /\ last.op = "extract" /\ last'.op = "extract"
    /\ last'.cls = last.cls /\ last'.arg = last.arg

\* C8 as stated, the first extract having raised nothing: the second of two
\* extracts on the same link finds the record, acquires nothing, inserts
\* nothing and raises nothing, and exactly one document with the link is
\* persisted.
C8_Original ==
    [][(SecondExtract /\ last.exc = "") =>
        /\ ~last'.acquired /\ last'.inserted = 0 /\ last'.exc = ""
        /\ Cardinality(WithLink([store |-> store'], last'.cls, last'.arg)) = 1]_vars

\* C8 amended: when a document with the link is persisted by the time of the
\* second extract and its lookup does not fail, the second extract acquires
\* nothing, inserts nothing and raises nothing; the documents with the link
\* are as many as before it, one if the first extract persisted the first.
C8_SecondExtractSkips ==
    (last.op = "extract" /\ last.rep /\ last.before >= 1 /\ ~last.lfail) =>
        /\ ~last.acquired /\ last.inserted = 0 /\ last.exc = ""
        /\ LinkCount = last.before

\* a repository link extracted a second time, its one document found
C8_Witness ==
    /\ last.op = "extract" /\ last.rep /\ last.cls = "GithubCrawler"
    /\ last.before = 1 /\ ~last.lfail
    /\ ~last.acquired /\ last.inserted = 0 /\ last.exc = "" /\ LinkCount = 1
    /\ \E i \in 1..Len(written["repositories"]) : written["repositories"][i].f.link = last.arg

\* C17: a GithubCrawler extract leaves no temporary directory behind: the
\* directories that exist when the call ends are the ones that existed when
\* it began, whether it saved, returned on an empty clone, raised, or found
\* the link stored and made no directory.
C17_TempDirRemoved ==
    [][(last'.op = "extract" /\ last'.cls = "GithubCrawler") => tempdirs' = tempdirs]_vars

\* an extract that made its directory and raised inside the try block (the
\* clone, the user lookup or the construction of the document) has ended,
\* and no directory is left
C17_Witness ==
    /\ last.op = "extract" /\ last.cls = "GithubCrawler"
    /\ last.acquired /\ last.exc # "" /\ last.inserted = 0
    /\ tempdirs = {}

\* the collection of the strategy of the extract a step is
ExtractColl == get_collection_name(CrawlerModel(last'.cls))

\* C18: an extract whose fetch or clone raises or comes back empty, or that
\* raises anywhere, has inserted nothing; an extract inserts at most one
\* record, after the records there were, and only when the fetch or clone
\* came back with content; the record carries the link.
C18_PersistsOnlyWhenComplete ==
    [][last'.op = "extract" =>
        /\ (last'.exc # "" \/ last'.got \in {"raises", "empty"}) =>
                (store' = store /\ written' = written /\ last'.inserted = 0)
        /\ \A c \in DOMAIN store : c # ExtractColl => store'[c] = store[c]
        /\ Len(store'[ExtractColl]) \in {Len(store[ExtractColl]), Len(store[ExtractColl]) + 1}
        /\ SubSeq(store'[ExtractColl], 1, Len(store[ExtractColl])) = store[ExtractColl]
        /\ store' # store =>
            /\ last'.acquired /\ last'.got = "full" /\ last'.inserted = 1
            /\ store'[ExtractColl][Len(store'[ExtractColl])].link = last'.arg]_vars

\* an extract whose clone came back empty has returned without an error and
\* without a record for its link
C18_Witness ==
    /\ last.op = "extract" /\ last.cls = "GithubCrawler" /\ "user" \in DOMAIN last.kw
    /\ last.acquired /\ last.got = "empty" /\ last.exc = "" /\ ~last.wfail
    /\ last.inserted = 0 /\ LinkCount = 0

\* C23: an extract whose lookup fails with an operation failure goes on as
\* if no record carried the link: it acquires, and when the acquisition is
\* full and the write is taken (uuid4 drawing an id not in use) it inserts
\* one more record for the link, also when the link is stored already.
C23_FailedLookupIsNotFound ==
    [][(last'.op = "extract" /\ last'.lfail) =>
        /\ last'.acquired
        /\ (last'.got = "full" /\ ~last'.wfail /\ "user" \in DOMAIN last'.kw
                /\ FreshIds # {}) =>
            /\ last'.exc = "" /\ last'.inserted = 1
            /\ Cardinality(WithLink([store |-> store'], last'.cls, last'.arg))
                    = last'.before + 1]_vars

\* a link stored once was extracted again with a failing lookup, and two
\* records carry it now
C23_Witness ==
    /\ last.op = "extract" /\ last.lfail /\ last.exc = ""
    /\ last.before = 1 /\ last.inserted = 1 /\ LinkCount = 2

(***************************************************************************)
(* The dispatcher: registrations and lookups on one dispatcher.            *)
(***************************************************************************)
CrawlerClasses == {"GithubCrawler", "CustomArticleCrawler"}
RegisterUrls ==
    { <<"https", "://", "example.com">>,
      <<"https", "://", "example.com", "/", "blog">>,
      <<"https", "://", "www.", "example.com">>,
      <<"https", "://", "example.org", "/">> }
LookupUrls ==
    { <<"https", "://", "example.com", "/", "anything">>,
      <<"https", "://", "example.com">>,
      <<"http", "://", "example.com", "/", "anything">>,
      <<"https", "://", "www.", "example.com", "/", "anything">>,
      <<"https", "://", "example.org", "/", "a">>,
      <<"https", "://", "github.com", "/", "u", "/", "r">>,
      <<"https", "://", "example.net", "/", "a">>,
      <<"example.com", "/", "anything">> }

\* dispatcher.register(domain, crawler)
Register ==
    \E domain \in RegisterUrls, crawler \in CrawlerClasses :
        /\ Len(registered) < MaxRegistrations
        /\ _crawlers' = register(_crawlers, domain, crawler)
        /\ registered' = Append(registered, [domain |-> domain, crawler |-> crawler])
        /\ last' = Called("register", crawler, Str(domain), None, None, "", FALSE, FALSE, 0, 0)
        /\ UNCHANGED <<connVars, store, written, oids, tempdirs, batch, pureVars, callers>>

\* dispatcher.register_github()
RegisterGithub ==
    /\ Len(registered) < MaxRegistrations
    /\ _crawlers' = register_github(_crawlers)
    /\ registered' = Append(registered, [domain |-> <<"https", "://", "github.com">>,
                                         crawler |-> "GithubCrawler"])
    /\ last' = Called("register_github", "", None, None, None, "", FALSE, FALSE, 0, 0)
    /\ UNCHANGED <<connVars, store, written, oids, tempdirs, batch, pureVars, callers>>

\* dispatcher.get_crawler(url)
GetCrawler ==
    \E url \in LookupUrls :
        /\ \E r \in {get_crawler(_crawlers, url)} :
            last' = Called("get_crawler", "", Str(url), None, r.ret, r.exc, FALSE, FALSE, 0, 0)
        /\ UNCHANGED <<connVars, store, written, oids, tempdirs, dispVars, pureVars, callers>>

DispInit == ConnIdle /\ OdmIdle /\ DispIdle /\ PureIdle /\ _crawlers = build

DispNext == Register \/ RegisterGithub \/ GetCrawler

SpecDisp == DispInit /\ [][DispNext]_vars

\* the registrations made for a domain, and the strategy of the latest
RegistrationsFor(domain) ==
    {i \in 1..Len(registered) : netloc(registered[i].domain) = domain}
LatestFor(domain) ==
    registered[CHOOSE i \in RegistrationsFor(domain) :
                    \A j \in RegistrationsFor(domain) : j <= i].crawler

\* a domain without its leading "www."
NoWww(domain) == IF domain # <<>> /\ Head(domain) = "www." THEN Tail(domain) ELSE domain

C21_RegisterNormalizes ==
    [][last'.op = "register" =>
        LET host == NoWww(netloc(last'.arg.s))
        IN  /\ \A variant \in {<<"https", "://">> \o host, <<"https", "://", "www.">> \o host} :
                    register(_crawlers, variant, last'.cls) = _crawlers'
            /\ \E p \in DOMAIN _crawlers' :
                    /\ _crawlers'[p] = last'.cls
                    /\ FullMatch(p, <<"https", "://">> \o host)
                    /\ FullMatch(p, <<"https", "://", "www.">> \o host)
            /\ \A p \in DOMAIN _crawlers :
                    (~FullMatch(p, <<"https", "://">> \o host)
                        /\ ~FullMatch(p, <<"https", "://", "www.">> \o host)) =>
                    (p \in DOMAIN _crawlers' /\ _crawlers'[p] = _crawlers[p])]_vars

(***************************************************************************)
(* The batch runner, one URL at a time.                                    *)
(***************************************************************************)
BatchLinks ==
    GithubLinks \cup { Str(<<"https", "://", "example.org", "/", "a">>),
                       Str(<<"https", "://", "www.", "github.com", "/", "u", "/", "r">>) }

\* test_crawler_dispatcher(user, links) up to the loop
BatchStart ==
    \E links \in SeqsUpTo(BatchLinks, MaxLinks), user \in Users :
        /\ batch.pc = "idle" /\ _instance # 0
        /\ _crawlers' = register_github(build)
        /\ registered' = <<[domain |-> <<"https", "://", "github.com">>,
                            crawler |-> "GithubCrawler"]>>
        /\ batch' = [pc |-> "loop", links |-> links, user |-> user, i |-> 1,
                     successful_crawls |-> 0, metadata |-> EmptyDict, log |-> <<>>,
                     summary |-> None, exc |-> ""]
        /\ UNCHANGED <<connVars, odmVars, pureVars>>

\* one turn of the loop: _crawler_link and _add_to_metadata for links[i]
BatchLink ==
    \E lfail \in BOOLEAN, clone \in Clones, wfail \in BOOLEAN :
        /\ batch.pc = "loop" /\ batch.i <= Len(batch.links)
        /\ \E r \in {_crawler_link(_crawlers, DB, tempdirs, batch.links[batch.i], batch.user,
                                  lfail, clone, wfail, Fresh)} :
            /\ Drawn(r.db)
            /\ SetDb(r.db)
            /\ tempdirs' = r.dirs
            /\ batch' =
                IF r.exc # ""
                THEN [batch EXCEPT !.pc = "raised", !.exc = r.exc]
                ELSE [batch EXCEPT
                        !.i = @ + 1,
                        !.successful_crawls = @ + (IF r.ret[1] THEN 1 ELSE 0),
                        !.metadata = _add_to_metadata(@, r.ret[2], r.ret[1]),
                        !.log = Append(@, [link |-> batch.links[batch.i], ok |-> r.ret[1],
                                           error |-> r.logged])]
        /\ UNCHANGED <<connVars, last, _crawlers, registered, pureVars, callers>>

\* the loop is over: the summary is built and returned
BatchReturn ==
    /\ batch.pc = "loop" /\ batch.i > Len(batch.links)
    /\ batch' = [batch EXCEPT
                    !.pc = "returned",
                    !.summary = [total |-> Len(batch.links),
                                 successful |-> batch.successful_crawls,
                                 failed |-> Len(batch.links) - batch.successful_crawls,
                                 metadata |-> batch.metadata]]
    /\ UNCHANGED <<connVars, odmVars, _crawlers, registered, pureVars>>

BatchInit == Imported /\ OdmIdle /\ DispIdle /\ PureIdle

BatchNext == BatchStart \/ BatchLink \/ BatchReturn

SpecBatch == BatchInit /\ [][BatchNext]_vars

\* C10: the batch never ends by an exception; when it has ended every URL
\* of the list was attempted once, in order, the summary counts every URL
\* and counts as failed the URLs that failed.
C10_NeverAborts ==
    /\ batch.pc # "raised"
    /\ batch.pc = "returned" =>
        /\ [k \in 1..Len(batch.log) |-> batch.log[k].link] = batch.links
        /\ batch.summary.total = Len(batch.links)
        /\ batch.summary.failed = Cardinality({k \in 1..Len(batch.log) : ~batch.log[k].ok})

\* the sum of f[k][field] over the keys k of mapping f
RECURSIVE SumOf(_, _)
SumOf(f, field) ==
    IF DOMAIN f = {} THEN 0
    ELSE LET k == CHOOSE x \in DOMAIN f : TRUE
         IN  f[k][field] + SumOf(DictDel(f, k), field)

\* C22: in the summary a batch returns, total is the number of URLs given,
\* successful and failed are not negative and add up to total, the totals of
\* the domains add up to total and their successful counts to successful,
\* and no domain has more successes than attempts or fewer than none.
C22_SummaryAddsUp ==
    batch.pc = "returned" =>
        /\ batch.summary.total = Len(batch.links)
        /\ batch.summary.successful >= 0 /\ batch.summary.failed >= 0
        /\ batch.summary.successful + batch.summary.failed = batch.summary.total
        /\ SumOf(batch.summary.metadata, "total") = batch.summary.total
        /\ SumOf(batch.summary.metadata, "successful") = batch.summary.successful
        /\ \A d \in DOMAIN batch.summary.metadata :
                /\ 0 <= batch.summary.metadata[d].successful
                /\ batch.summary.metadata[d].successful <= batch.summary.metadata[d].total

\* a batch of two URLs of one domain has returned, one extract having
\* raised and one not
C22_Witness ==
    /\ batch.pc = "returned" /\ Len(batch.links) = 2
    /\ batch.summary.successful = 1 /\ batch.summary.failed = 1
    /\ \E d \in DOMAIN batch.summary.metadata :
            batch.summary.metadata[d] = [successful |-> 1, total |-> 2]

\* a turn of the batch's loop that went through
Turn == batch.pc = "loop" /\ batch'.pc = "loop" /\ batch'.i = batch.i + 1

\* C24: a turn adds one to the successful count exactly when its extract
\* returned without raising (no error was logged), and nothing otherwise;
\* a turn that persisted a document is counted, and so is one that
\* persisted none but did not raise.
C24_CountsReturns ==
    [][Turn =>
        LET entry == batch'.log[Len(batch'.log)]
        IN  /\ entry.link = batch.links[batch.i]
            /\ batch'.successful_crawls
                    = batch.successful_crawls + (IF entry.error = "" THEN 1 ELSE 0)
            /\ store' # store => entry.error = ""]_vars

\* a batch of one link given twice has returned with both turns counted as
\* successful and one document persisted
C24_Witness ==
    /\ batch.pc = "returned" /\ Len(batch.links) = 2 /\ batch.links[1] = batch.links[2]
    /\ batch.summary.successful = 2
    /\ Len(store["repositories"]) = 1

(***************************************************************************)
(* bulk_insert and bulk_find, the package imported and connected.          *)
(***************************************************************************)
BulkFilters == {EmptyDict} \cup {[name |-> n] : n \in Names}

\* the documents handed to bulk_insert: two that share a name
BulkDocs == {d \in OdmDocs : d.f.name = Str(<<"Entry 0">>)}

\* cls.bulk_insert(documents, **kw)
CallBulkInsert ==
    \E documents \in SeqsUpTo(BulkDocs, MaxBatch), kw \in OdmKw, wfailAt \in 0..MaxBatch :
        LET cls == "ExampleDocument"
            coll == get_collection_name(cls)
        IN  /\ _instance # 0
            /\ wfailAt <= Len(documents)
            /\ \E r \in {bulk_insert(DB, cls, documents, kw, wfailAt)} :
                /\ Len(r.db.store[coll]) <= MaxRecords
                /\ SetDb(r.db)
                /\ last' = Called("bulk_insert", cls, List(documents), kw, r.ret, r.exc,
                                  FALSE, wfailAt # 0, Len(store[coll]),
                                  Len(r.db.store[coll]) - Len(store[coll]))
            /\ UNCHANGED <<connVars, tempdirs, dispVars, pureVars, callers>>

\* cls.bulk_find(**filter)
CallBulkFind ==
    \E filter \in BulkFilters, lfail \in BOOLEAN :
        LET cls == "ExampleDocument"
        IN  /\ _instance # 0
            /\ \E r \in {bulk_find(DB, cls, filter, lfail)} :
                last' = Called("bulk_find", cls, filter, None, r.ret, r.exc, lfail, FALSE,
                               Cardinality(Matching(DB, get_collection_name(cls), filter)), 0)
            /\ UNCHANGED <<connVars, store, written, oids, tempdirs, dispVars, pureVars, callers>>

\* no call of this specification hands the driver a UUID object, so its
\* uuidRepresentation is left at the default
BulkInit ==
    /\ _instance = 1 /\ clients = 1 /\ driver = "unspecified"
    /\ OdmIdle /\ DispIdle /\ PureIdle

BulkNext == CallBulkInsert \/ CallBulkFind

SpecBulk == BulkInit /\ [][BulkNext]_vars

\* the matching records of the last bulk_find, and those of them from_mongo
\* makes a document of
BulkMatches ==
    SelectSeq(store[get_collection_name(last.cls)], LAMBDA rec : Matches(rec, last.arg))
BulkReadable == SelectSeq(BulkMatches, LAMBDA rec : from_mongo(last.cls, rec).ok)

\* C13: bulk_find raises nothing; it returns one document for every matching
\* record that deserializes, leaving out the others, and the empty list when
\* the query fails with an operation failure.
C13_OmitsUnreadable ==
    last.op = "bulk_find" =>
        /\ last.exc = "" /\ last.ret.t = "list"
        /\ last.lfail => last.ret.l = <<>>
        /\ ~last.lfail =>
            last.ret.l = [k \in 1..Len(BulkReadable) |->
                            Doc(from_mongo(last.cls, BulkReadable[k]).doc)]

\* the records bulk_insert hands to insert_many, and whether the store
\* rejects one of them: the server fails a write, or an _id is taken by a
\* stored record or by an earlier record of the batch
BatchRecords ==
    [k \in 1..Len(last'.arg.l) |->
        to_mongo(last'.arg.l[k], last'.kw.exclude_unset, last'.kw.by_alias)]
BatchRejected ==
    \/ last'.wfail
    \/ \E k \in 1..Len(BatchRecords) :
        /\ "_id" \in DOMAIN BatchRecords[k]
        /\ \/ \E i \in 1..Len(store[get_collection_name(last'.cls)]) :
                store[get_collection_name(last'.cls)][i]["_id"] = BatchRecords[k]["_id"]
           \/ \E j \in 1..(k - 1) : BatchRecords[j]["_id"] = BatchRecords[k]["_id"]

\* C14: a bulk_insert of a non-empty list whose batch meets a write error
\* returns false and raises nothing, whatever part of the batch is stored by
\* then; it returns true only when every document of the list was inserted,
\* in order, after the records there were.
C14_BulkInsertFalseOnError ==
    [][(last'.op = "bulk_insert" /\ last'.arg.l # <<>>) =>
        /\ last'.exc = ""
        /\ BatchRejected => last'.ret = Bool(FALSE)
        /\ last'.ret = Bool(TRUE) =>
            /\ Len(store'[get_collection_name(last'.cls)])
                    = Len(store[get_collection_name(last'.cls)]) + Len(last'.arg.l)
            /\ \A k \in 1..Len(last'.arg.l) :
                    written'[get_collection_name(last'.cls)]
                            [Len(store[get_collection_name(last'.cls)]) + k] = last'.arg.l[k]
        /\ SubSeq(store'[get_collection_name(last'.cls)], 1,
                  Len(store[get_collection_name(last'.cls)]))
                = store[get_collection_name(last'.cls)]]_vars

\* a batch of two whose second record was rejected: false came back, nothing
\* was raised, and the first record is stored
C14_Witness ==
    /\ last.op = "bulk_insert" /\ Len(last.arg.l) = 2
    /\ last.ret = Bool(FALSE) /\ last.exc = "" /\ last.inserted = 1

\* a step that is a bulk_find by the name all documents of the bulk_insert()
\* before it carry, that bulk_insert having returned true and the lookup not
\* failing
FindAfterBulkInsert ==
    /\ last.op = "bulk_insert" /\ last.kw = DefaultKw /\ last.ret = Bool(TRUE)
    /\ last'.op = "bulk_find" /\ ~last'.lfail /\ last'.cls = last.cls
    /\ DOMAIN last'.arg = {"name"}
    /\ \A k \in 1..Len(last.arg.l) : last.arg.l[k].f.name = last'.arg.name

\* C16: after a bulk_insert of N documents that share a name returned true,
\* bulk_find by that name returns all N, each by its id, and exactly N when
\* no record matched before the insert.
C16_BulkFindAfterBulkInsert ==
    [][FindAfterBulkInsert =>
        /\ last'.exc = "" /\ last'.ret.t = "list"
        /\ \A k \in 1..Len(last.arg.l) :
                \E j \in 1..Len(last'.ret.l) : last'.ret.l[j].doc.f.id = last.arg.l[k].f.id
        /\ last'.before = Len(last.arg.l) => Len(last'.ret.l) = Len(last.arg.l)]_vars

(***************************************************************************)
(* Two callers on one store, each inside a get_or_create or a GithubCrawler *)
(* extract.  A call is two steps, the lookup and what follows it, and the  *)
(* steps of the two callers interleave in any order.                       *)
(***************************************************************************)
RaceFilters == {[name |-> n] : n \in Names}
RaceLinks == {Str(<<"https", "://", "github.com", "/", "u", "/", "r">>)}
RaceKwargs == CHOOSE kwargs \in ExtractKwargs : "user" \in DOMAIN kwargs

\* the class a caller's call reads and writes, and the filter of its lookup
RaceCls(op) == IF op = "extract" THEN "RepositoryDocument" ELSE "ExampleDocument"
RaceFilter(op, arg) == IF op = "extract" THEN [link |-> arg] ELSE arg
RaceCount(db, c) ==
    Cardinality(Matching(db, get_collection_name(RaceCls(c.op)), RaceFilter(c.op, c.arg)))

\* caller p enters a call and gets the answer of its lookup
RaceLookup(p) ==
    /\ _instance # 0 /\ callers[p].pc = "idle"
    /\ \E op \in {"get_or_create", "extract"}, lfail \in BOOLEAN :
        \E arg \in IF op = "extract" THEN RaceLinks ELSE RaceFilters :
            \E r \in {IF op = "extract" THEN GithubCrawler_lookup(DB, arg, lfail)
                      ELSE get_or_create_lookup(DB, RaceCls(op), arg, lfail)} :
                callers' = [callers EXCEPT ![p] =
                    [pc |-> IF r.path = "create" THEN "insert" ELSE "done",
                     op |-> op, arg |-> arg,
                     seen |-> Cardinality(Matching(DB, get_collection_name(RaceCls(op)),
                                                   RaceFilter(op, arg))),
                     wfail |-> FALSE, got |-> "", exc |-> r.exc]]
    /\ UNCHANGED <<connVars, store, written, oids, tempdirs, last, dispVars, pureVars>>

\* caller p, told "not found", creates: the instance is built and saved, or
\* the repository is cloned, walked and saved; uuid4 draws an id not in use
RaceInsert(p) ==
    /\ callers[p].pc = "insert" /\ FreshIds # {}
    /\ \E wfail \in BOOLEAN :
        \E clone \in IF callers[p].op = "extract" THEN Clones ELSE {None} :
            \E r \in {IF callers[p].op = "extract"
                      THEN GithubCrawler_scrape(DB, tempdirs, callers[p].arg, RaceKwargs,
                                                clone, wfail, Fresh)
                      ELSE get_or_create_insert(DB, RaceCls(callers[p].op), callers[p].arg,
                                                wfail, Fresh)} :
                /\ Len(r.db.store[get_collection_name(RaceCls(callers[p].op))]) <= MaxRecords
                /\ Drawn(r.db)
                /\ SetDb(r.db)
                /\ tempdirs' = IF callers[p].op = "extract" THEN r.dirs ELSE tempdirs
                /\ callers' = [callers EXCEPT ![p] =
                        [@ EXCEPT !.pc = "done", !.wfail = wfail, !.exc = r.exc,
                                  !.got = IF callers[p].op = "extract" THEN Fetched(clone)
                                          ELSE ""]]
    /\ UNCHANGED <<connVars, last, dispVars, pureVars>>

\* the call of caller p returns
RaceReturn(p) ==
    /\ callers[p].pc = "done"
    /\ callers' = [callers EXCEPT ![p] = NoCaller]
    /\ UNCHANGED <<connVars, store, written, oids, tempdirs, last, dispVars, pureVars>>

RaceNext ==
    \/ \E p \in Callers : RaceLookup(p)
    \/ \E p \in Callers : RaceInsert(p)
    \/ \E p \in Callers : RaceReturn(p)

SpecRace == CrawlInit /\ [][RaceNext]_vars

\* a step in which caller p, told "not found" before, creates, with a store
\* that takes the write and, for an extract, a clone that has files
Creates(p) ==
    /\ callers[p].pc = "insert" /\ callers'[p].pc = "done"
    /\ ~callers'[p].wfail
    /\ callers[p].op = "extract" => callers'[p].got = "full"

\* C19: the creation that follows "not found" does not look again: it
\* inserts its record whatever the store holds by then, so one more record
\* matches the filter values or the link than before the step, also when
\* another caller has inserted a matching one since the lookup.
C19_InsertsWithoutLookingAgain ==
    [][\A p \in Callers :
        Creates(p) =>
            /\ callers'[p].exc = ""
            /\ RaceCount([store |-> store'], callers[p]) = RaceCount(DB, callers[p]) + 1]_vars

\* two callers of get_or_create with the same filters were both told "not
\* found" while no record matched, both have inserted since, and two records
\* match the filters now
C19_Witness ==
    /\ \A p \in Callers :
        /\ callers[p].pc = "done" /\ callers[p].op = "get_or_create"
        /\ callers[p].seen = 0 /\ ~callers[p].wfail /\ callers[p].exc = ""
    /\ callers[1].arg = callers[2].arg
    /\ RaceCount(DB, callers[1]) = 2

(***************************************************************************)
(* Every operation that reaches the store, in any order.  Of a call only   *)
(* its name and the instance a save was called on are kept.                *)
(***************************************************************************)
\* the link each strategy is called with
OpsLink(crawler) ==
    IF crawler = "GithubCrawler" THEN Str(<<"https", "://", "github.com", "/", "u", "/", "r">>)
    ELSE Str(<<"https", "://", "example.com", "/", "a">>)

\* the call op has ended: the store and the directories are what it left
After(op, arg, db, dirs) ==
    /\ _instance # 0
    /\ \A c \in DOMAIN db.store : Len(db.store[c]) <= MaxRecords
    /\ Drawn(db)
    /\ SetDb(db)
    /\ tempdirs' = dirs
    /\ last' = [NoCall EXCEPT !.op = op, !.arg = arg]
    /\ UNCHANGED <<connVars, dispVars, pureVars, callers>>

OpsSave ==
    \E d \in OdmDocs, kw \in OdmKw, wfail \in BOOLEAN :
        \E r \in {save(DB, d, kw, wfail)} : After("save", d, r.db, tempdirs)

OpsFind ==
    \E filter \in BulkFilters, lfail \in BOOLEAN :
        \E r \in {find(DB, "ExampleDocument", filter, lfail)} :
            After("find", None, DB, tempdirs)

OpsGetOrCreate ==
    \E filter \in RaceFilters, lfail \in BOOLEAN, wfail \in BOOLEAN :
        \E r \in {get_or_create(DB, "ExampleDocument", filter, lfail, wfail, Fresh)} :
            After("get_or_create", None, r.db, tempdirs)

OpsBulkInsert ==
    \E documents \in SeqsUpTo(BulkDocs, MaxBatch), kw \in OdmKw, wfailAt \in 0..MaxBatch :
        /\ wfailAt <= Len(documents)
        /\ \E r \in {bulk_insert(DB, "ExampleDocument", documents, kw, wfailAt)} :
            After("bulk_insert", None, r.db, tempdirs)

OpsBulkFind ==
    \E filter \in BulkFilters, lfail \in BOOLEAN :
        \E r \in {bulk_find(DB, "ExampleDocument", filter, lfail)} :
            After("bulk_find", None, DB, tempdirs)

OpsExtract ==
    \E crawler \in CrawlerClasses, lfail \in BOOLEAN, wfail \in BOOLEAN :
        \E got \in IF crawler = "GithubCrawler" THEN Clones ELSE Pages :
            \E r \in {extract(crawler, DB, tempdirs, OpsLink(crawler), RaceKwargs, lfail, got,
                              wfail, Fresh)} :
                After("extract", None, r.db, r.dirs)

OpsNext ==
    OpsSave \/ OpsFind \/ OpsGetOrCreate \/ OpsBulkInsert \/ OpsBulkFind \/ OpsExtract

SpecOps == BulkInit /\ [][OpsNext]_vars

\* C20: no step of save, bulk_insert, find, bulk_find, get_or_create or
\* extract removes or changes a stored record: each collection keeps its
\* records, with their values and in their places, and at most gains records
\* after them; find and bulk_find leave the store as it is.
C20_InsertOnly ==
    [][/\ \A c \in DOMAIN store :
            /\ Len(store[c]) <= Len(store'[c])
            /\ SubSeq(store'[c], 1, Len(store[c])) = store[c]
       /\ last'.op \in {"find", "bulk_find"} =>
            (store' = store /\ written' = written /\ oids' = oids)]_vars

\* a save was called on an instance whose id is the _id of a stored record
\* with another name: the record is as it was
C20_Witness ==
    /\ last.op = "save"
    /\ \E i \in 1..Len(store["test_collection"]) :
        /\ store["test_collection"][i]["_id"] = Str(UuidStr(last.arg.f.id.int))
        /\ store["test_collection"][i].name # last.arg.f.name

=============================================================================
